---- MODULE Spec2Model ----
(***************************************************************************)
(* Model of web/artk_demos/js/artoolkit.three.js: the getUserMedia /       *)
(* tracker-ready initialization handshake, the marker dictionaries, the    *)
(* per-frame process() and the compositing renderOn().                     *)
(***************************************************************************)
EXTENDS Integers, Sequences, FiniteSets, TLC

\* ------------------------------------------------------------------ bounds
MaxDim == 2               \* video dimensions range over 1..MaxDim
MaxMetadataEvents == 2    \* 'loadedmetadata' events the browser may dispatch
MaxObjs == 2              \* THREE.Object3D instances created by the caller
MaxDetect == 2            \* markers the tracker reports in one frame

\* ------------------------------------------------------------- variables
VARIABLES
    called,          \* getUserMediaThreeScene has been called
    onError,         \* the onError handler in effect after lines 45-50
    gumPending,      \* navigator.getUserMedia was invoked and has not answered
    lmListener,      \* initProgress is registered for 'loadedmetadata'
    readyCb,         \* initProgress is registered through artoolkit.onReady
    readyFired,      \* the tracker has delivered its ready callback
    videoSrc,        \* video.src has been set to the stream URL
    videoDims,       \* <<video.videoWidth, video.videoHeight>>
    lmDispatched,    \* number of 'loadedmetadata' events dispatched so far
    initWaitCount,   \* the closure variable of line 71
    tasks,           \* browser task queue: callbacks waiting to run
    calls,           \* log of the calls made on external objects
    lmSeen,          \* number of times the loadedmetadata listener has run
    readySeen,       \* the onReady callback has run
    rejectedWith,    \* the error getUserMedia rejected with, or "none"
    successArg,      \* the argument onSuccess was called with, or NoScene
    arScene,         \* the ThreeARScene returned by createThreeScene, or NoScene
    objs,            \* heap of THREE.Object3D: [visible, matrix] and the call that made it
    patternMarkers,  \* artoolkit.patternMarkers: uid -> index into objs
    barcodeMarkers,  \* artoolkit.barcodeMarkers: uid -> index into objs
    projectionMatrix,\* camera.projectionMatrix.elements
    cameraMatrix,    \* what artoolkit.getCameraMatrix() returns now
    transMatrix,     \* what artoolkit.getTransformationMatrix() returns now
    pc,              \* position of the caller around ThreeARScene.process:
                     \* "idle", "tracking" (inside artoolkit.process),
                     \* "returned" (process() has just returned)
    marker,          \* argument of the latest onGetMarker call, or NoMarker
    nDetected,       \* onGetMarker calls made during the current frame
    reportedPatt,    \* UIDs reported as idPatt during the latest frame
    reportedMatrix,  \* UIDs reported as idMatrix during the latest frame
    needsUpdate,     \* videoTex.needsUpdate
    autoClear,       \* renderer.autoClear
    renderLog        \* renderer calls made by the latest renderOn

hsVars == <<called, onError, gumPending, lmListener, readyCb, readyFired,
            videoSrc, videoDims, lmDispatched, initWaitCount, tasks, calls,
            lmSeen, readySeen, rejectedWith, successArg>>
sceneVars == <<arScene, projectionMatrix, needsUpdate>>
trackVars == <<objs, patternMarkers, barcodeMarkers, cameraMatrix, transMatrix,
               pc, marker, nDetected, reportedPatt, reportedMatrix>>
renderVars == <<autoClear, renderLog>>
vars == <<hsVars, sceneVars, trackVars, renderVars>>

\* ---------------------------------------------------------------- matrices
\* A matrix is kept as the first two of its sixteen column-major elements.
\* new THREE.Matrix4() is the identity:
Identity == <<1, 0>>

\* The matrices the tracker hands out (poses and camera projections).
Mat == {<<0, 1>>, <<1, 1>>}

\* THREE.Matrix4.prototype.setFromArray: this.elements.set(m) copies m's
\* elements over the receiver's, index by index.
setFromArray(elements, m) ==
    [i \in DOMAIN elements |-> IF i \in DOMAIN m THEN m[i] ELSE elements[i]]

\* ------------------------------------------------ initialization handshake
NoScene == [scene |-> "none", videoScene |-> "none", camera |-> "none",
            videoCamera |-> "none", video |-> "none"]

\* The object literal createThreeScene(video) returns (lines 126-132).
createThreeScene(video) ==
    [scene |-> "scene", videoScene |-> "videoScene", camera |-> "camera",
     videoCamera |-> "videoCamera", video |-> video]

\* The state createThreeScene(video) builds: the returned object, a fresh
\* camera and a fresh video texture.
CreateScene(video) ==
    /\ arScene' = createThreeScene(video)
    /\ projectionMatrix' = Identity
    /\ needsUpdate' = FALSE

Errors == {"PermissionDeniedError", "NotFoundError"}

Call(op, a, b, s) == [op |-> op, a |-> a, b |-> b, s |-> s]
Task(type, err) == [type |-> type, err |-> err]

\* Mutant: the missing handler is not replaced.
defaultOnErrorMissing(arg) == arg

\* if (!onError) { onError = function(err) { console.log(...) } }
defaultOnError(arg) == IF arg = "none" THEN "default" ELSE arg

\* if (navigator.getUserMedia) getUserMedia(hdConstraints, success, onError)
\* else onError('')
gumDispatch(hasGUM, width, height, handler) ==
    IF hasGUM
    THEN <<Call("getUserMedia", width, height, "")>>
    ELSE <<Call("onError", 0, 0, handler), Call("errValue", 0, 0, "")>>

\* completeInit: setup(video.videoWidth, video.videoHeight), then
\* createThreeScene(video), then onSuccess(scenes).
completeInitCalls(dims) ==
    <<Call("setup", dims[1], dims[2], ""),
      Call("createThreeScene", 0, 0, "video"),
      Call("onSuccess", 0, 0, "scenes")>>

\* Mutant: the count is compared one callback too late.
initCompleteLate(count) == count = -1

\* if (initWaitCount === 0), evaluated after the decrement
initComplete(count) == count = 0

InitHandshake ==
    /\ called = FALSE
    /\ onError = "unset"
    /\ gumPending = FALSE
    /\ lmListener = FALSE
    /\ readyCb = FALSE
    /\ readyFired = FALSE
    /\ videoSrc = FALSE
    /\ videoDims = <<0, 0>>
    /\ lmDispatched = 0
    /\ initWaitCount = 2
    /\ tasks = <<>>
    /\ calls = <<>>
    /\ lmSeen = 0
    /\ readySeen = FALSE
    /\ rejectedWith = "none"
    /\ successArg = NoScene
    /\ arScene = NoScene
    /\ projectionMatrix = Identity
    /\ needsUpdate = FALSE

\* artoolkit.getUserMediaThreeScene(width, height, onSuccess, onError),
\* lines 43-94, up to its return.
GetUserMediaThreeScene ==
    /\ ~called
    /\ \E width \in 1..MaxDim, height \in 1..MaxDim,
          onErrorArg \in {"none", "user"}, hasGUM \in BOOLEAN :
          /\ called' = TRUE
          /\ onError' = defaultOnError(onErrorArg)
          /\ initWaitCount' = 2
          /\ gumPending' = hasGUM
          /\ calls' = <<Call("getUserMediaThreeScene", width, height,
                             onErrorArg),
                        Call("init", 0, 0, "")>>
                        \o gumDispatch(hasGUM, width, height, onError')
    /\ UNCHANGED <<lmListener, readyCb, readyFired, videoSrc, videoDims,
                   lmDispatched, tasks, lmSeen, readySeen, rejectedWith,
                   successArg, sceneVars, trackVars, renderVars>>

\* The browser answers getUserMedia: it queues success(stream).
GumResolve ==
    /\ gumPending
    /\ gumPending' = FALSE
    /\ tasks' = Append(tasks, Task("success", ""))
    /\ UNCHANGED <<called, onError, lmListener, readyCb, readyFired, videoSrc,
                   videoDims, lmDispatched, initWaitCount, calls, lmSeen,
                   readySeen, rejectedWith, successArg, sceneVars, trackVars,
                   renderVars>>

\* The browser answers getUserMedia: it queues onError(err).
GumReject ==
    /\ gumPending
    /\ \E err \in Errors :
          /\ gumPending' = FALSE
          /\ rejectedWith' = err
          /\ tasks' = Append(tasks, Task("error", err))
    /\ UNCHANGED <<called, onError, lmListener, readyCb, readyFired, videoSrc,
                   videoDims, lmDispatched, initWaitCount, calls, lmSeen,
                   readySeen, successArg, sceneVars, trackVars, renderVars>>

\* The video element loads metadata: its dimensions are set and the event is
\* queued for the listener line 80 registered.
DispatchLoadedMetadata ==
    /\ videoSrc /\ lmListener
    /\ lmDispatched < MaxMetadataEvents
    /\ \E w \in 1..MaxDim, h \in 1..MaxDim : videoDims' = <<w, h>>
    /\ lmDispatched' = lmDispatched + 1
    /\ tasks' = Append(tasks, Task("loadedmetadata", ""))
    /\ UNCHANGED <<called, onError, gumPending, lmListener, readyCb,
                   readyFired, videoSrc, initWaitCount, calls, lmSeen,
                   readySeen, rejectedWith, successArg, sceneVars, trackVars,
                   renderVars>>

\* The tracker becomes ready: the callback line 85 registered is queued, once.
TrackerReady ==
    /\ readyCb /\ ~readyFired
    /\ readyFired' = TRUE
    /\ tasks' = Append(tasks, Task("ready", ""))
    /\ UNCHANGED <<called, onError, gumPending, lmListener, readyCb, videoSrc,
                   videoDims, lmDispatched, initWaitCount, calls, lmSeen,
                   readySeen, rejectedWith, successArg, sceneVars, trackVars,
                   renderVars>>

\* success(stream), lines 79-87
RunSuccess ==
    /\ tasks # <<>> /\ Head(tasks).type = "success"
    /\ tasks' = Tail(tasks)
    /\ lmListener' = TRUE
    /\ videoSrc' = TRUE
    /\ readyCb' = TRUE
    /\ calls' = calls \o <<Call("addEventListener", 0, 0, "loadedmetadata"),
                           Call("play", 0, 0, ""),
                           Call("onReady", 0, 0, "")>>
    /\ UNCHANGED <<called, onError, gumPending, readyFired, videoDims,
                   lmDispatched, initWaitCount, lmSeen, readySeen,
                   rejectedWith, successArg, sceneVars, trackVars, renderVars>>

\* onError(err), run as getUserMedia's error callback (line 90)
RunError ==
    /\ tasks # <<>> /\ Head(tasks).type = "error"
    /\ tasks' = Tail(tasks)
    /\ calls' = calls \o <<Call("onError", 0, 0, onError),
                           Call("errValue", 0, 0, Head(tasks).err)>>
    /\ UNCHANGED <<called, onError, gumPending, lmListener, readyCb,
                   readyFired, videoSrc, videoDims, lmDispatched,
                   initWaitCount, lmSeen, readySeen, rejectedWith, successArg,
                   sceneVars, trackVars, renderVars>>

\* initProgress, lines 72-77, with completeInit (lines 63-69) when the count
\* reaches 0
initProgress ==
    /\ initWaitCount' = initWaitCount - 1
    /\ IF initComplete(initWaitCount')
       THEN /\ calls' = calls \o completeInitCalls(videoDims)
            /\ CreateScene("video")
            /\ successArg' = arScene'
       ELSE UNCHANGED <<calls, sceneVars, successArg>>

\* the 'loadedmetadata' listener runs
RunLoadedMetadata ==
    /\ tasks # <<>> /\ Head(tasks).type = "loadedmetadata"
    /\ tasks' = Tail(tasks)
    /\ lmSeen' = lmSeen + 1
    /\ initProgress
    /\ UNCHANGED <<called, onError, gumPending, lmListener, readyCb,
                   readyFired, videoSrc, videoDims, lmDispatched, readySeen,
                   rejectedWith, trackVars, renderVars>>

\* the onReady callback runs
RunReady ==
    /\ tasks # <<>> /\ Head(tasks).type = "ready"
    /\ tasks' = Tail(tasks)
    /\ readySeen' = TRUE
    /\ initProgress
    /\ UNCHANGED <<called, onError, gumPending, lmListener, readyCb,
                   readyFired, videoSrc, videoDims, lmDispatched, lmSeen,
                   rejectedWith, trackVars, renderVars>>

\* The event loop runs the callback at the head of the queue.
RunTask == RunSuccess \/ RunError \/ RunLoadedMetadata \/ RunReady

\* ------------------------------------------------------------- rendering
ROp(op, scene, camera, flag) ==
    [op |-> op, scene |-> scene, camera |-> camera, flag |-> flag]

\* Mutant: renderer.autoClear is not switched off before rendering.
renderOnOpsAutoClearLeftOn(scn, ac) ==
    <<ROp("setNeedsUpdate", "", "", TRUE),
      ROp("clear", "", "", FALSE),
      ROp("render", scn.videoScene, scn.videoCamera, FALSE),
      ROp("render", scn.scene, scn.camera, FALSE),
      ROp("setAutoClear", "", "", ac)>>

\* The statements of renderOn(renderer), in program order (lines 146-153);
\* ac is renderer.autoClear as read on line 148.
renderOnOps(scn, ac) ==
    <<ROp("setNeedsUpdate", "", "", TRUE),
      ROp("setAutoClear", "", "", FALSE),
      ROp("clear", "", "", FALSE),
      ROp("render", scn.videoScene, scn.videoCamera, FALSE),
      ROp("render", scn.scene, scn.camera, FALSE),
      ROp("setAutoClear", "", "", ac)>>

\* Runs the statements against the renderer and the texture: each log entry
\* holds the statement and the two flags as they are once it has executed.
RECURSIVE execRender(_, _, _)
execRender(ops, ac, nu) ==
    IF ops = <<>> THEN <<>>
    ELSE LET o == Head(ops)
             ac2 == IF o.op = "setAutoClear" THEN o.flag ELSE ac
             nu2 == IF o.op = "setNeedsUpdate" THEN o.flag ELSE nu
         IN  <<[op |-> o.op, scene |-> o.scene, camera |-> o.camera,
                autoClear |-> ac2, needsUpdate |-> nu2]>>
             \o execRender(Tail(ops), ac2, nu2)

InitRender ==
    /\ autoClear = TRUE
    /\ renderLog = <<>>

\* arScene.renderOn(renderer), for a renderer whose autoClear is ac
RenderOn ==
    /\ arScene # NoScene
    /\ \E ac \in BOOLEAN :
          LET log == execRender(renderOnOps(arScene, ac), ac, needsUpdate)
          IN  /\ renderLog' = log
              /\ autoClear' = log[Len(log)].autoClear
              /\ needsUpdate' = log[Len(log)].needsUpdate
    /\ UNCHANGED <<hsVars, arScene, projectionMatrix, trackVars>>

\* ------------------------------------------------- markers and process()
\* Marker UIDs the caller registers objects for.
Uids == {0, 1}

\* Values of marker.idPatt and marker.idMatrix: a UID, or -1 for none.
MarkerIds == Uids \cup {-1}

NoMarker == [idPatt |-> -2, idMatrix |-> -2]

\* new THREE.Object3D(): visible, identity matrix. kind and uid remember the
\* call that returned the object.
NewObject(kind, uid) ==
    [visible |-> TRUE, matrix |-> Identity, kind |-> kind, uid |-> uid]

\* dict[key] = idx
Put(dict, key, idx) ==
    [k \in (DOMAIN dict) \cup {key} |-> IF k = key THEN idx ELSE dict[k]]

Registered(dict) == {dict[k] : k \in DOMAIN dict}

\* Mutant: only the patternMarkers loop runs.
hideAllPatternOnly(os, pm, bm) ==
    [i \in DOMAIN os |->
        IF i \in Registered(pm)
        THEN [os[i] EXCEPT !.visible = FALSE]
        ELSE os[i]]

\* The two for-in loops of process(), lines 135-140.
hideAll(os, pm, bm) ==
    [i \in DOMAIN os |->
        IF i \in Registered(pm) \cup Registered(bm)
        THEN [os[i] EXCEPT !.visible = FALSE]
        ELSE os[i]]

\* obj.matrix.setFromArray(T); obj.visible = true
track(o, T) ==
    [o EXCEPT !.matrix = setFromArray(o.matrix, T), !.visible = TRUE]

\* Mutant: the barcode lookup uses marker.idPatt.
onGetMarkerSameKey(os, pm, bm, mk, T) ==
    LET os1 == IF mk.idPatt \in DOMAIN pm
               THEN [os EXCEPT ![pm[mk.idPatt]] = track(@, T)]
               ELSE os
    IN  IF mk.idPatt \in DOMAIN bm
        THEN [os1 EXCEPT ![bm[mk.idPatt]] = track(@, T)]
        ELSE os1

\* artoolkit.onGetMarker(marker), lines 163-174; T is the value of
\* artoolkit.getTransformationMatrix() during the call.
onGetMarker(os, pm, bm, mk, T) ==
    LET os1 == IF mk.idPatt \in DOMAIN pm
               THEN [os EXCEPT ![pm[mk.idPatt]] = track(@, T)]
               ELSE os
    IN  IF mk.idMatrix \in DOMAIN bm
        THEN [os1 EXCEPT ![bm[mk.idMatrix]] = track(@, T)]
        ELSE os1

\* Mutant: getCameraMatrix() is read before the frame is processed.
readCameraMatrixEarly(before, after) == before

\* Lines 141-142: the frame is processed, then getCameraMatrix() is read.
\* before/after are the tracker's camera matrix around artoolkit.process.
readCameraMatrix(before, after) == after

InitTracking ==
    /\ objs = <<>>
    /\ patternMarkers = [k \in {} |-> 0]
    /\ barcodeMarkers = [k \in {} |-> 0]
    /\ cameraMatrix = Identity
    /\ transMatrix = Identity
    /\ pc = "idle"
    /\ marker = NoMarker
    /\ nDetected = 0
    /\ reportedPatt = {}
    /\ reportedMatrix = {}

\* The caller moves on from the frame process() last returned: the record of
\* what that frame reported is dropped.
EndOfFrameView ==
    /\ pc' = "idle"
    /\ reportedPatt' = {}
    /\ reportedMatrix' = {}

\* artoolkit.createThreeScene(video) called directly
CreateThreeScene ==
    /\ arScene = NoScene
    /\ pc = "idle"
    /\ CreateScene("video")
    /\ UNCHANGED <<hsVars, trackVars, renderVars>>

\* artoolkit.createThreeMarker(markerUID)
CreateThreeMarker ==
    /\ pc # "tracking"
    /\ Len(objs) < MaxObjs
    /\ \E uid \in Uids :
          /\ objs' = Append(objs, NewObject("pattern", uid))
          /\ patternMarkers' = Put(patternMarkers, uid, Len(objs) + 1)
    /\ EndOfFrameView
    /\ UNCHANGED <<hsVars, sceneVars, renderVars, barcodeMarkers, cameraMatrix,
                   transMatrix, marker, nDetected>>

\* artoolkit.createThreeBarcodeMarker(markerUID)
CreateThreeBarcodeMarker ==
    /\ pc # "tracking"
    /\ Len(objs) < MaxObjs
    /\ \E uid \in Uids :
          /\ objs' = Append(objs, NewObject("barcode", uid))
          /\ barcodeMarkers' = Put(barcodeMarkers, uid, Len(objs) + 1)
    /\ EndOfFrameView
    /\ UNCHANGED <<hsVars, sceneVars, renderVars, patternMarkers, cameraMatrix,
                   transMatrix, marker, nDetected>>

\* process() up to the call of artoolkit.process(video)
ProcessBegin ==
    /\ arScene # NoScene
    /\ pc # "tracking"
    /\ objs' = hideAll(objs, patternMarkers, barcodeMarkers)
    /\ reportedPatt' = {}
    /\ reportedMatrix' = {}
    /\ nDetected' = 0
    /\ marker' = NoMarker
    /\ pc' = "tracking"
    /\ UNCHANGED <<hsVars, sceneVars, renderVars, patternMarkers,
                   barcodeMarkers, cameraMatrix, transMatrix>>

\* The tracker, inside artoolkit.process, reports one detected marker.
OnGetMarker ==
    /\ pc = "tracking"
    /\ nDetected < MaxDetect
    /\ \E idPatt \in MarkerIds, idMatrix \in MarkerIds, T \in Mat :
          /\ marker' = [idPatt |-> idPatt, idMatrix |-> idMatrix]
          /\ transMatrix' = T
          /\ objs' = onGetMarker(objs, patternMarkers, barcodeMarkers,
                                 marker', T)
          /\ reportedPatt' = reportedPatt \cup ({idPatt} \cap Uids)
          /\ reportedMatrix' = reportedMatrix \cup ({idMatrix} \cap Uids)
    /\ nDetected' = nDetected + 1
    /\ UNCHANGED <<hsVars, sceneVars, renderVars, patternMarkers,
                   barcodeMarkers, cameraMatrix, pc>>

\* artoolkit.process returns; the projection matrix is read back.
ProcessEnd ==
    /\ pc = "tracking"
    /\ \E cam \in Mat :
          /\ cameraMatrix' = cam
          /\ projectionMatrix' =
                setFromArray(projectionMatrix,
                             readCameraMatrix(cameraMatrix, cam))
    /\ marker' = NoMarker
    /\ nDetected' = 0
    /\ pc' = "returned"
    /\ UNCHANGED <<hsVars, arScene, needsUpdate, renderVars, objs,
                   patternMarkers, barcodeMarkers, transMatrix,
                   reportedPatt, reportedMatrix>>

\* -------------------------------------------------------- specifications
Init == InitHandshake /\ InitTracking /\ InitRender

\* One call of getUserMediaThreeScene, then rendering with the scene.
Next ==
    \/ GetUserMediaThreeScene
    \/ GumResolve
    \/ GumReject
    \/ DispatchLoadedMetadata
    \/ TrackerReady
    \/ RunTask
    \/ RenderOn

Spec == Init /\ [][Next]_vars

\* The browser's event loop runs every queued callback.
LiveSpec == Spec /\ WF_vars(RunTask)

\* A scene made with createThreeScene, markers, and the frame loop.
NextTrack ==
    \/ CreateThreeScene
    \/ CreateThreeMarker
    \/ CreateThreeBarcodeMarker
    \/ ProcessBegin
    \/ OnGetMarker
    \/ ProcessEnd

TrackSpec == Init /\ [][NextTrack]_vars

\* ----------------------------------------------------------------- claims
CallIdx(op) == {i \in DOMAIN calls : calls[i].op = op}
OnSuccessCalled == CallIdx("onSuccess") # {}

\* C1: onSuccess (completeInit) is called only once both the loadedmetadata
\* listener and the tracker's onReady callback have each run at least once.
C1_SuccessOnlyAfterBoth ==
    OnSuccessCalled => (lmSeen >= 1 /\ readySeen)

\* setup, createThreeScene(video), onSuccess were called one after the other,
\* setup with loaded video dimensions, and onSuccess got the scene object
\* createThreeScene(video) returned.
SuccessDelivered ==
    /\ \E i \in CallIdx("setup") :
          /\ calls[i].a \in 1..MaxDim /\ calls[i].b \in 1..MaxDim
          /\ i + 2 \in DOMAIN calls
          /\ calls[i + 1].op = "createThreeScene"
          /\ calls[i + 1].s = "video"
          /\ calls[i + 2].op = "onSuccess"
    /\ successArg = createThreeScene("video")
    /\ successArg = arScene

\* C2: once the stream was delivered and, after it, a loadedmetadata event and
\* the tracker's ready callback have both been fired, onSuccess is eventually
\* called with the object createThreeScene(video) returned, setup(videoWidth,
\* videoHeight) having been called before createThreeScene.
C2_SuccessEventually ==
    (lmDispatched >= 1 /\ readyFired) ~> SuccessDelivered

C2_Witness ==
    /\ SuccessDelivered
    /\ lmSeen >= 1 /\ readySeen
    /\ tasks = <<>>

\* The handler the call must use: the caller's, or the default one.
HandlerOf(arg) == IF arg = "none" THEN "default" ELSE "user"

NoGum == called /\ CallIdx("getUserMedia") = {}

\* C3: without navigator.getUserMedia, onError('') is called before
\* getUserMediaThreeScene returns; when getUserMedia rejects, onError is called
\* with its error; either way no listener or onReady callback is registered
\* and onSuccess is not called; a missing onError is replaced by the default
\* handler.
C3_ErrorPath ==
    called =>
       LET h == HandlerOf(calls[1].s)
       IN  /\ NoGum =>
                /\ calls = <<calls[1], Call("init", 0, 0, ""),
                             Call("onError", 0, 0, h),
                             Call("errValue", 0, 0, "")>>
                /\ ~lmListener /\ ~readyCb /\ ~OnSuccessCalled
           /\ rejectedWith # "none" =>
                /\ ~lmListener /\ ~readyCb /\ ~OnSuccessCalled
                /\ CallIdx("addEventListener") = {}
                /\ CallIdx("onReady") = {}
                /\ tasks = <<>> =>
                      /\ Len(calls) = 5
                      /\ calls[4] = Call("onError", 0, 0, h)
                      /\ calls[5] = Call("errValue", 0, 0, rejectedWith)
                /\ tasks # <<>> => CallIdx("onError") = {}

C3_Witness ==
    /\ called
    /\ calls[1].s = "none"
    /\ rejectedWith # "none"
    /\ tasks = <<>>
    /\ CallIdx("onError") # {}

\* C4: after a process() call, every object createThreeMarker(uid) (resp.
\* createThreeBarcodeMarker(uid)) ever returned is visible if the tracker
\* reported a marker with idPatt (resp. idMatrix) uid during that call.
C4_EveryReturnedObjectTracks ==
    pc = "returned" =>
       \A i \in DOMAIN objs :
          \/ objs[i].visible
          \/ /\ ~(objs[i].kind = "pattern" /\ objs[i].uid \in reportedPatt)
             /\ ~(objs[i].kind = "barcode" /\ objs[i].uid \in reportedMatrix)

\* C5: when process() returns, each object registered in patternMarkers
\* (resp. barcodeMarkers) is visible exactly when a marker whose idPatt (resp.
\* idMatrix) equals its key was reported during that call.
C5_VisibleIffReported ==
    pc = "returned" =>
       /\ \A k \in DOMAIN patternMarkers :
             objs[patternMarkers[k]].visible <=> k \in reportedPatt
       /\ \A k \in DOMAIN barcodeMarkers :
             objs[barcodeMarkers[k]].visible <=> k \in reportedMatrix

C5_Witness ==
    /\ pc = "returned"
    /\ \E k \in DOMAIN patternMarkers :
          k \in reportedPatt /\ objs[patternMarkers[k]].visible
    /\ \E k \in DOMAIN barcodeMarkers :
          k \notin reportedMatrix /\ ~objs[barcodeMarkers[k]].visible

\* The objects onGetMarker(mk) looks up.
Targets(mk) ==
    {patternMarkers[k] : k \in {mk.idPatt} \cap DOMAIN patternMarkers}
       \cup {barcodeMarkers[k] : k \in {mk.idMatrix} \cap DOMAIN barcodeMarkers}

\* C6: a call onGetMarker(marker) sets the matrix of the objects registered
\* under patternMarkers[marker.idPatt] and barcodeMarkers[marker.idMatrix] to
\* the tracker's current transformation matrix, and leaves the matrix and the
\* visible flag of every other object as they were.
C6_OnGetMarkerEffect ==
    [][(pc = "tracking" /\ pc' = "tracking") =>
          /\ DOMAIN objs' = DOMAIN objs
          /\ \A i \in DOMAIN objs :
                IF i \in Targets(marker')
                THEN objs'[i].matrix = transMatrix'
                ELSE /\ objs'[i].matrix = objs[i].matrix
                     /\ objs'[i].visible = objs[i].visible]_vars

C6_Witness ==
    /\ pc = "tracking"
    /\ marker # NoMarker
    /\ \E i \in Targets(marker) : objs[i].matrix = transMatrix
    /\ \E i \in DOMAIN objs \ Targets(marker) :
          i \in Registered(patternMarkers) \cup Registered(barcodeMarkers)

\* Object i has been reported in the current frame under the key it is
\* registered with.
Reported(i, rp, rm) ==
    \/ \E k \in DOMAIN patternMarkers : patternMarkers[k] = i /\ k \in rp
    \/ \E k \in DOMAIN barcodeMarkers : barcodeMarkers[k] = i /\ k \in rm

\* C7: when process() returns, the camera's projectionMatrix equals what
\* getCameraMatrix() returns after the frame was processed; and no step of
\* process() changes the matrix of an object not reported in that frame.
C7_ProjectionReadBack ==
    [][/\ (pc = "tracking" /\ pc' = "returned") =>
             projectionMatrix' = cameraMatrix'
       /\ (pc = "tracking" \/ pc' = "tracking") =>
             \A i \in DOMAIN objs :
                ~Reported(i, reportedPatt', reportedMatrix') =>
                   objs'[i].matrix = objs[i].matrix]_vars

C7_Witness ==
    /\ pc = "returned"
    /\ projectionMatrix = cameraMatrix
    /\ projectionMatrix # Identity
    /\ \E i \in DOMAIN objs : Reported(i, reportedPatt, reportedMatrix)
    /\ \E i \in DOMAIN objs :
          /\ ~Reported(i, reportedPatt, reportedMatrix)
          /\ objs[i].matrix # Identity

Renders == SelectSeq(renderLog, LAMBDA e : e.op = "render")

\* C8: renderOn clears the renderer exactly once, then renders the video
\* scene with the video camera, then the 3D scene with the 3D camera, with
\* autoClear false during both renders and the video texture flagged
\* needsUpdate before them.
C8_RenderOrder ==
    renderLog # <<>> =>
       LET clears == {i \in DOMAIN renderLog : renderLog[i].op = "clear"}
           rs == {i \in DOMAIN renderLog : renderLog[i].op = "render"}
       IN  /\ Cardinality(clears) = 1
           /\ Cardinality(rs) = 2
           /\ \A c \in clears, r \in rs : c < r
           /\ Renders[1].scene = arScene.videoScene
           /\ Renders[1].camera = arScene.videoCamera
           /\ Renders[2].scene = arScene.scene
           /\ Renders[2].camera = arScene.camera
           /\ \A i \in rs : /\ ~renderLog[i].autoClear
                            /\ renderLog[i].needsUpdate

C8_Witness ==
    /\ renderLog # <<>>
    /\ autoClear
    /\ needsUpdate
    /\ OnSuccessCalled

====
